---------------------------- MODULE Spec2Model ----------------------------
(***************************************************************************)
(* A model of the srt-rs packet codec (src/src/packet.rs): the enum        *)
(* encoders and decoders, Packet::serialize and Packet::parse.             *)
(*                                                                         *)
(* An i32 is an integer in MinI32..MaxI32 (two's complement, 32 bits); a   *)
(* byte is an integer in 0..255; a buffer is a sequence of bytes.  The     *)
(* bit operations of the source (&, |, !, <<) are computed on the two's    *)
(* complement representation, bit by bit.                                  *)
(***************************************************************************)
EXTENDS Integers, Sequences, FiniteSets, TLC

VARIABLES pc, input, wire, word, res,
          rpc, polled, yielded, datagrams

vars == <<pc, input, wire, word, res, rpc, polled, yielded, datagrams>>

\* the state of the codec runs, and the state of the relay (bin.rs)
codecVars == <<pc, input, wire, word, res>>
relayVars == <<rpc, polled, yielded, datagrams>>

(***************************************************************************)
(* Bounds of the model.                                                    *)
(***************************************************************************)
\* the longest payload of a data packet handed to serialize
MaxPayload == 2
\* how many bytes a raw buffer may hold beyond the fixed layout it is cut from
MaxTrail == 2

(***************************************************************************)
(* 32-bit and 16-bit two's complement arithmetic.                          *)
(***************************************************************************)
MinI32 == -2147483647 - 1
MaxI32 == -(MinI32 + 1)

\* bits 30..0 of an i32, as a natural number
Low31(x) == IF x < 0 THEN x - MinI32 ELSE x

RECURSIVE AndNat(_, _, _)
AndNat(a, b, n) ==
    IF n = 0 THEN 0
    ELSE (a % 2) * (b % 2) + 2 * AndNat(a \div 2, b \div 2, n - 1)

RECURSIVE OrNat(_, _, _)
OrNat(a, b, n) ==
    IF n = 0 THEN 0
    ELSE (IF a % 2 = 1 \/ b % 2 = 1 THEN 1 ELSE 0)
         + 2 * OrNat(a \div 2, b \div 2, n - 1)

\* x & y on i32
And32(x, y) ==
    LET lo == AndNat(Low31(x), Low31(y), 31)
    IN  IF x < 0 /\ y < 0 THEN lo + MinI32 ELSE lo

\* x | y on i32
Or32(x, y) ==
    LET lo == OrNat(Low31(x), Low31(y), 31)
    IN  IF x < 0 \/ y < 0 THEN lo + MinI32 ELSE lo

\* !x on i32
Not32(x) == (-1) - x

\* x << n on i32, 0 <= n < 32: the n high bits are lost, the bit that
\* reaches position 31 becomes the sign
Shl32(x, n) ==
    IF n = 0 THEN x
    ELSE LET l    == Low31(x)
             keep == l % (2 ^ (31 - n))
             top  == (l \div (2 ^ (31 - n))) % 2
         IN  keep * (2 ^ n) + (IF top = 1 THEN MinI32 ELSE 0)

(***************************************************************************)
(* PacketLocation (packet.rs 64-98).                                       *)
(***************************************************************************)
PacketLocations == {"First", "Middle", "Last", "Only"}

PacketLocation_from_i32(from) ==
    IF And32(from, Shl32(2, 30)) = Shl32(2, 30) THEN "First"
    ELSE IF And32(from, Shl32(1, 30)) = Shl32(1, 30) THEN "Last"
    ELSE IF And32(from, Shl32(3, 30)) # Shl32(3, 30) THEN "Only"
    ELSE "Middle"

PacketLocation_to_i32(self) ==
    CASE self = "First"  -> Shl32(3, 30)
      [] self = "Middle" -> Shl32(2, 30)
      [] self = "Last"   -> Shl32(1, 30)
      [] self = "Only"   -> 0

(***************************************************************************)
(* Results.  A Rust Result is Ok(v) or Err(kind, msg); a panic (an         *)
(* unimplemented!() or a read past the end of a buffer) is a third         *)
(* outcome, which unwinds the caller.                                       *)
(***************************************************************************)
Ok(v) == [tag |-> "Ok", v |-> v]
Err(kind, msg) == [tag |-> "Err", kind |-> kind, msg |-> msg]
Panic(why) == [tag |-> "Panic", why |-> why]
NoResult == [tag |-> "None"]

Some(x) == <<x>>
None == <<>>

(***************************************************************************)
(* SocketType (packet.rs 389-415) and ConnectionType (packet.rs 419-455).  *)
(***************************************************************************)
SocketTypes == {"Stream", "Datagram"}

\* SocketType::from_i32 with its error arm lost: every other word is taken
\* for a datagram socket
SocketType_from_i32_lenient(num) ==
    CASE num = 1 -> Ok("Stream")
      [] OTHER   -> Ok("Datagram")

SocketType_from_i32(num) ==
    CASE num = 1 -> Ok("Stream")
      [] num = 2 -> Ok("Datagram")
      [] OTHER   -> Err("InvalidData", "Unrecognized socket type")

SocketType_to_i32(self) ==
    CASE self = "Stream"   -> 1
      [] self = "Datagram" -> 2

ConnectionTypes ==
    {"Regular", "RendezvousFirst", "RendezvousSecond", "RendezvousFinal"}

ConnectionType_from_i32(num) ==
    CASE num = 1  -> Ok("Regular")
      [] num = 0  -> Ok("RendezvousFirst")
      [] num = -1 -> Ok("RendezvousSecond")
      [] num = -2 -> Ok("RendezvousFinal")
      [] OTHER    -> Err("InvalidData", "Unrecognized connection type")

ConnectionType_to_i32(self) ==
    CASE self = "Regular"          -> 1
      [] self = "RendezvousFirst"  -> 0
      [] self = "RendezvousSecond" -> -1
      [] self = "RendezvousFinal"  -> -2


(***************************************************************************)
(* The bytes crate's big-endian readers and writers, as packet.rs uses     *)
(* them: get_i32::<BigEndian>, get_u8, put_i32::<BigEndian>,               *)
(* put_i16::<BigEndian>.  A reader panics when fewer bytes remain than it  *)
(* reads; the callers below test Remaining before each read.  The writers  *)
(* append to a buffer that grows as needed.                                *)
(***************************************************************************)
MinI16 == -32767 - 1

\* x | y on i16
Or16(x, y) ==
    LET lx == IF x < 0 THEN x - MinI16 ELSE x
        ly == IF y < 0 THEN y - MinI16 ELSE y
        lo == OrNat(lx, ly, 15)
    IN  IF x < 0 \/ y < 0 THEN lo + MinI16 ELSE lo

\* x << n on i16, for the one shift of the source (0b1 << 15)
Shl16(x, n) ==
    LET wide == Shl32(x, n) % 65536
    IN  IF wide >= 32768 THEN wide - 65536 ELSE wide

\* the i32 whose big-endian bytes are buf[off+1 .. off+4]
GetI32(buf, off) ==
    (IF buf[off + 1] >= 128 THEN buf[off + 1] - 256 ELSE buf[off + 1]) * 16777216
    + buf[off + 2] * 65536 + buf[off + 3] * 256 + buf[off + 4]

\* the four big-endian bytes of an i32
PutI32(x) ==
    LET l == Low31(x)
    IN  << (l \div 16777216) + (IF x < 0 THEN 128 ELSE 0),
           (l \div 65536) % 256,
           (l \div 256) % 256,
           l % 256 >>

\* the two big-endian bytes of an i16
PutI16(x) ==
    LET u == IF x < 0 THEN x + 65536 ELSE x
    IN  << u \div 256, u % 256 >>

\* buf.remaining() once off bytes were read
Remaining(buf, off) == Len(buf) - off

(***************************************************************************)
(* ControlTypes (packet.rs 160-305).                                       *)
(***************************************************************************)
id_byte(self) ==
    CASE self.tag = "Handshake"   -> 0
      [] self.tag = "KeepAlive"   -> 1
      [] self.tag = "Ack"         -> 2
      [] self.tag = "Nak"         -> 3
      [] self.tag = "Shutdown"    -> 5
      [] self.tag = "Ack2"        -> 6
      [] self.tag = "DropRequest" -> 7

add_info(self) ==
    CASE self.tag = "Handshake"   -> 0
      [] self.tag = "KeepAlive"   -> 0
      [] self.tag = "Ack"         -> self.seq
      [] self.tag = "Nak"         -> 0
      [] self.tag = "Shutdown"    -> 0
      [] self.tag = "Ack2"        -> self.seq
      [] self.tag = "DropRequest" -> self.seq

\* the bytes serialize writes for the peer address of a handshake
PeerAddrBytes(addr) ==
    IF addr.v = "V4"
    THEN addr.octets \o <<0, 0, 0, 0>>
    ELSE addr.octets

\* ControlTypes::serialize: Ok(the bytes appended), or a panic
ControlTypes_serialize(self) ==
    CASE self.tag = "Handshake" ->
            LET c == self.info
            IN  Ok(PutI32(c.udt_version)
                   \o PutI32(SocketType_to_i32(c.sock_type))
                   \o PutI32(c.init_seq_num)
                   \o PutI32(c.max_packet_size)
                   \o PutI32(c.max_flow_size)
                   \o PutI32(ConnectionType_to_i32(c.connection_type))
                   \o PutI32(c.socket_id)
                   \o PutI32(c.syn_cookie)
                   \o PeerAddrBytes(c.peer_addr))
      [] self.tag = "KeepAlive"   -> Ok(<<>>)
      [] self.tag = "Ack"         -> Panic("unimplemented")
      [] self.tag = "Nak"         -> Panic("unimplemented")
      [] self.tag = "Shutdown"    -> Ok(<<>>)
      [] self.tag = "Ack2"        -> Ok(<<>>)
      [] self.tag = "DropRequest" -> Panic("unimplemented")

\* IpAddr::from([u8; 16]): sixteen octets always make an IPv6 address
IpAddrFrom16(octets) == [v |-> "V6", octets |-> octets]

\* the handshake arm of ControlTypes::deserialize; buf is the control
\* information field (what follows the 16-byte header)
DeserializeHandshake(buf) ==
    IF Remaining(buf, 0) < 4 THEN Panic("read past end")
    ELSE IF Remaining(buf, 4) < 4 THEN Panic("read past end")
    ELSE LET sock_type == SocketType_from_i32(GetI32(buf, 4))
    IN  IF sock_type.tag = "Err" THEN sock_type
    ELSE IF Remaining(buf, 8) < 4 THEN Panic("read past end")
    ELSE IF Remaining(buf, 12) < 4 THEN Panic("read past end")
    ELSE IF Remaining(buf, 16) < 4 THEN Panic("read past end")
    ELSE IF Remaining(buf, 20) < 4 THEN Panic("read past end")
    ELSE LET connection_type == ConnectionType_from_i32(GetI32(buf, 20))
    IN  IF connection_type.tag = "Err" THEN connection_type
    ELSE IF Remaining(buf, 24) < 4 THEN Panic("read past end")
    ELSE IF Remaining(buf, 28) < 4 THEN Panic("read past end")
    ELSE IF Remaining(buf, 32) < 16 THEN Panic("read past end")
    ELSE Ok([tag |-> "Handshake",
             info |-> [udt_version     |-> GetI32(buf, 0),
                       sock_type       |-> sock_type.v,
                       init_seq_num    |-> GetI32(buf, 8),
                       max_packet_size |-> GetI32(buf, 12),
                       max_flow_size   |-> GetI32(buf, 16),
                       connection_type |-> connection_type.v,
                       socket_id       |-> GetI32(buf, 24),
                       syn_cookie      |-> GetI32(buf, 28),
                       peer_addr       |-> IpAddrFrom16(SubSeq(buf, 33, 48))]])

\* the closure opt_read_next of the ACK arm: whether it reads a word when
\* off bytes of the control information field were consumed
OptReadTaken(buf, off) == Remaining(buf, off) > 4

\* the ACK arm: the optional fields are read in order, each one only if
\* the closure found enough bytes; a None does not advance the buffer
RECURSIVE AckOptionals(_, _, _)
AckOptionals(buf, off, n) ==
    IF n = 0 THEN <<>>
    ELSE IF OptReadTaken(buf, off)
         THEN <<Some(GetI32(buf, off))>> \o AckOptionals(buf, off + 4, n - 1)
         ELSE <<None>> \o AckOptionals(buf, off, n - 1)

DeserializeAck(extra_info, buf) ==
    IF Remaining(buf, 0) < 4 THEN Panic("read past end")
    ELSE LET opt == AckOptionals(buf, 4, 5)
         IN  Ok([tag |-> "Ack",
                 seq |-> extra_info,
                 info |-> [recvd_until      |-> GetI32(buf, 0),
                           rtt              |-> opt[1],
                           rtt_variance     |-> opt[2],
                           buffer_available |-> opt[3],
                           packet_recv_rate |-> opt[4],
                           est_link_cap     |-> opt[5]]])

\* ControlTypes::deserialize
ControlTypes_deserialize(packet_type, extra_info, buf) ==
    CASE packet_type = 0 -> DeserializeHandshake(buf)
      [] packet_type = 1 -> Ok([tag |-> "KeepAlive"])
      [] packet_type = 2 -> DeserializeAck(extra_info, buf)
      [] packet_type = 3 -> Panic("unimplemented")
      [] packet_type = 5 -> Ok([tag |-> "Shutdown"])
      [] packet_type = 6 -> Panic("unimplemented")
      [] packet_type = 7 -> Panic("unimplemented")
      [] OTHER -> Err("InvalidData", "Unrecognized control packet type")

(***************************************************************************)
(* Packet (packet.rs 457-551).                                             *)
(***************************************************************************)
\* the length of the header both kinds of packet start with
HeaderLen == 16

\* the test of Packet::parse off by one: a bare header is refused too
TooShort_offbyone(buf) == Remaining(buf, 0) <= HeaderLen

\* the test Packet::parse starts with
TooShort(buf) == Remaining(buf, 0) < HeaderLen

\* (first4[0] & 0b1 << 7) == 0
IsDataHeader(buf) == buf[1] < 128

Packet_parse(buf) ==
    IF TooShort(buf)
    THEN Err("UnexpectedEof", "Packet not long enough to have a header")
    ELSE IF IsDataHeader(buf)
    THEN LET second_line == GetI32(buf, 4)
         IN  Ok([tag               |-> "Data",
                 seq_number        |-> GetI32(buf, 0),
                 message_loc       |-> PacketLocation_from_i32(second_line),
                 in_order_delivery |-> And32(second_line, Shl32(1, 29)) # 0,
                 message_number    |-> And32(second_line, Not32(Shl32(7, 29))),
                 timestamp         |-> GetI32(buf, 8),
                 dest_sockid       |-> GetI32(buf, 12),
                 payload           |-> SubSeq(buf, 17, Len(buf))])
    ELSE LET control_type ==
                 ControlTypes_deserialize(buf[2], GetI32(buf, 4),
                                          SubSeq(buf, 17, Len(buf)))
         IN  IF control_type.tag # "Ok" THEN control_type
             ELSE Ok([tag          |-> "Control",
                      timestamp    |-> GetI32(buf, 8),
                      dest_sockid  |-> GetI32(buf, 12),
                      control_type |-> control_type.v])

\* the control header Packet::serialize writes before the control
\* information field
ControlHeaderBytes(c) ==
    PutI16(Or16(id_byte(c.control_type), Shl16(1, 15)))
    \o PutI16(0)
    \o PutI32(add_info(c.control_type))
    \o PutI32(c.timestamp)
    \o PutI32(c.dest_sockid)

\* what Packet::serialize writes for a data packet
DataBytes(d) ==
    PutI32(d.seq_number)
    \o PutI32(Or32(d.message_number, PacketLocation_to_i32(d.message_loc)))
    \o PutI32(d.timestamp)
    \o PutI32(d.dest_sockid)
    \o d.payload

\* Packet::serialize: the bytes written, and whether the call panicked
\* after writing them
Packet_serialize(self) ==
    IF self.tag = "Control"
    THEN LET body == ControlTypes_serialize(self.control_type)
         IN  IF body.tag = "Ok"
             THEN [bytes |-> ControlHeaderBytes(self) \o body.v, panicked |-> FALSE]
             ELSE [bytes |-> ControlHeaderBytes(self), panicked |-> TRUE]
    ELSE [bytes |-> DataBytes(self), panicked |-> FALSE]

(***************************************************************************)
(* The inputs the operations are run on.                                   *)
(***************************************************************************)
SeqsUpTo(A, n) == UNION {[1..k -> A] : k \in 0..n}

Take(s, n) == SubSeq(s, 1, IF n < Len(s) THEN n ELSE Len(s))

\* n bytes of no meaning
Filler(n) == [i \in 1..n |-> (i * 37 + 11) % 256]

\* words the enum decoders are run on, and that handshake bodies carry
I32Samples == {MinI32, -3, -2, -1, 0, 1, 2, 3, 256, 16777216, MaxI32}

\* the words of packet_location_test (packet.rs 553-570)
LocationWords ==
    { Shl32(2, 30), Not32(Shl32(1, 30)), Shl32(2734, 20),
      0,            Not32(Shl32(3, 30)), Shl32(686, 20),
      Shl32(1, 30), Not32(Shl32(2, 30)), Shl32(1838, 20),
      Shl32(3, 30), Not32(Shl32(0, 30)), Shl32(3374, 20) }

PayloadBytes == {0, 171, 255}

DataPackets ==
    [ tag               : {"Data"},
      seq_number        : {0, 1, MaxI32},
      message_loc       : PacketLocations,
      in_order_delivery : BOOLEAN,
      message_number    : {0, 5, 536870911},
      timestamp         : {-1, 1000},
      dest_sockid       : {0, MinI32},
      payload           : SeqsUpTo(PayloadBytes, MaxPayload) ]

PeerAddrs ==
    { [v |-> "V4", octets |-> <<127, 0, 0, 1>>],
      [v |-> "V4", octets |-> <<0, 0, 0, 0>>],
      [v |-> "V6", octets |-> <<0, 0, 0, 0, 0, 0, 0, 0, 0, 0, 0, 0, 0, 0, 0, 1>>],
      [v |-> "V6", octets |-> <<0, 0, 0, 0, 0, 0, 0, 0, 0, 0, 255, 255, 127, 0, 0, 1>>],
      [v |-> "V6", octets |-> <<32, 1, 13, 184, 0, 0, 0, 0, 0, 0, 0, 0, 0, 0, 171, 205>>] }

HandshakeInfos ==
    [ udt_version     : {4},
      sock_type       : SocketTypes,
      init_seq_num    : {0, MaxI32},
      max_packet_size : {1500},
      max_flow_size   : {25600},
      connection_type : ConnectionTypes,
      socket_id       : {-1, 9},
      syn_cookie      : {0, MinI32},
      peer_addr       : PeerAddrs ]

AckInfos ==
    [ recvd_until      : {7},
      rtt              : {None, Some(10)},
      rtt_variance     : {None},
      buffer_available : {None},
      packet_recv_rate : {None},
      est_link_cap     : {None} ]

ControlTypeValues ==
    [tag : {"Handshake"}, info : HandshakeInfos]
    \cup [tag : {"KeepAlive", "Shutdown"}]
    \cup [tag : {"Ack"}, seq : {1}, info : AckInfos]
    \cup [tag : {"Nak"}, info : [loss_info : {<<>>, <<3>>}]]
    \cup [tag : {"Ack2"}, seq : {0, 1}]
    \cup [tag : {"DropRequest"}, seq : {2}, info : [first : {3}, last : {4}]]

ControlPackets ==
    [ tag          : {"Control"},
      timestamp    : {-1, 1000},
      dest_sockid  : {0, 77},
      control_type : ControlTypeValues ]

\* raw buffers: a header of any first two bytes, cut at every length
FirstBytes == {0, 127, 128, 129, 255}
TypeBytes == (0..8) \cup {128, 255}

HeaderCuts ==
    { Take(<<b0, b1>> \o Filler(14 + MaxTrail), n) :
        b0 \in FirstBytes, b1 \in TypeBytes, n \in 0..(16 + MaxTrail) }

RawControlHeader(b0, b1) ==
    <<b0, b1, 0, 0>> \o PutI32(3) \o PutI32(1000) \o PutI32(77)

\* raw ACK packets: recvd_until and five further words, cut at every length
AckBodies ==
    { PutI32(w[1]) \o PutI32(w[2]) \o PutI32(w[3]) \o PutI32(w[4])
      \o PutI32(w[5]) \o PutI32(w[6]) \o Filler(MaxTrail) :
        w \in [1..6 -> {-6, 5}] }

AckCuts ==
    { RawControlHeader(128, 2) \o Take(b, n) :
        b \in AckBodies, n \in 0..(24 + MaxTrail) }

\* raw handshake packets: any sampled word as sock_type and as conn_type,
\* cut at every length
HandshakeBodies ==
    { PutI32(4) \o PutI32(st) \o PutI32(1) \o PutI32(1500) \o PutI32(25600)
      \o PutI32(ct) \o PutI32(9) \o PutI32(0)
      \o <<0, 0, 0, 0, 0, 0, 0, 0, 0, 0, 0, 0, 0, 0, 0, 1>> \o Filler(MaxTrail) :
        st \in I32Samples, ct \in I32Samples }

HandshakeCuts ==
    { RawControlHeader(128, 0) \o Take(b, n) :
        b \in HandshakeBodies, n \in 0..(48 + MaxTrail) }

RawBuffers == HeaderCuts \cup AckCuts \cup HandshakeCuts

Raw == [tag |-> "Raw"]

EnumInputs ==
    [tag : {"Enum"}, ty : {"PacketLocation"}, v : PacketLocations]
    \cup [tag : {"Enum"}, ty : {"SocketType"}, v : SocketTypes]
    \cup [tag : {"Enum"}, ty : {"ConnectionType"}, v : ConnectionTypes]

WordInputs ==
    [tag : {"Word"}, ty : {"PacketLocation", "SocketType", "ConnectionType"}]

(***************************************************************************)
(* The state machine.  A run takes one input through the codec:            *)
(*   a packet   --Serialize-->  bytes on the wire  --Parse-->  a result;   *)
(*   a received buffer                             --Parse-->  a result;   *)
(*   an enum value  --ToI32-->  a word             --FromI32-> a result;   *)
(*   a word                                        --FromI32-> a result.   *)
(***************************************************************************)
\* the relay is not running during a codec run
RelayNotStarted ==
    /\ rpc = "not_started"
    /\ polled = NoResult
    /\ yielded = <<>>
    /\ datagrams = <<>>

Init ==
    /\ RelayNotStarted
    /\ res = NoResult
    /\ \/ /\ pc = "packet"
          /\ input \in DataPackets \cup ControlPackets
          /\ wire = <<>>
          /\ word = 0
       \/ /\ pc = "wire"
          /\ input = Raw
          /\ wire \in RawBuffers
          /\ word = 0
       \/ /\ pc = "enum"
          /\ input \in EnumInputs
          /\ wire = <<>>
          /\ word = 0
       \/ /\ pc = "word"
          /\ input \in WordInputs
          /\ wire = <<>>
          /\ word \in I32Samples \cup LocationWords

\* Packet::serialize(&input, into), into being empty
Serialize ==
    /\ pc = "packet"
    /\ LET out == Packet_serialize(input)
       IN  /\ wire' = out.bytes
           /\ pc' = IF out.panicked THEN "aborted" ELSE "wire"
           /\ res' = IF out.panicked THEN Panic("unimplemented") ELSE res
    /\ UNCHANGED <<input, word>>
    /\ UNCHANGED relayVars

\* Packet::parse(wire)
Parse ==
    /\ pc = "wire"
    /\ res' = Packet_parse(wire)
    /\ pc' = "parsed"
    /\ UNCHANGED <<input, wire, word>>
    /\ UNCHANGED relayVars

to_i32(ty, v) ==
    CASE ty = "PacketLocation" -> PacketLocation_to_i32(v)
      [] ty = "SocketType"     -> SocketType_to_i32(v)
      [] ty = "ConnectionType" -> ConnectionType_to_i32(v)

from_i32(ty, w) ==
    CASE ty = "PacketLocation" -> Ok(PacketLocation_from_i32(w))
      [] ty = "SocketType"     -> SocketType_from_i32(w)
      [] ty = "ConnectionType" -> ConnectionType_from_i32(w)

\* input.v.to_i32()
ToI32 ==
    /\ pc = "enum"
    /\ word' = to_i32(input.ty, input.v)
    /\ pc' = "word"
    /\ UNCHANGED <<input, wire, res>>
    /\ UNCHANGED relayVars

\* T::from_i32(word), T being input.ty
FromI32 ==
    /\ pc = "word"
    /\ res' = from_i32(input.ty, word)
    /\ pc' = "decoded"
    /\ UNCHANGED <<input, wire, word>>
    /\ UNCHANGED relayVars

Next == Serialize \/ Parse \/ ToI32 \/ FromI32

Spec == Init /\ [][Next]_vars

(***************************************************************************)
(* The relay (bin.rs 22-51).  Printer is a future the executor polls;      *)
(* Printer::poll loops: it polls the receiver, returns NotReady when the   *)
(* receiver is not ready, logs and polls again on an error, sends a        *)
(* yielded buffer to 127.0.0.1:1888 and polls again, and returns Ready     *)
(* when the receiver yields the end of the stream.                         *)
(*                                                                         *)
(* The receiver (srt::receiver::Receiver) is the environment: each of its  *)
(* polls answers with any of the four results.  One step is one call of    *)
(* recvr.poll() or the match arm run on its result, so that a poll call    *)
(* of many iterations is a run of many steps.                              *)
(*   rpc        where the relay is: "loop" before recvr.poll(), "match"    *)
(*              with its result in hand, "not_ready" and "ready" once      *)
(*              poll returned, "panicked" once unwrap() panicked           *)
(*   polled     the last result of recvr.poll()                            *)
(*   yielded    the buffers the receiver yielded so far, in order          *)
(*   datagrams  the datagrams handed to out_sock.send_to, in order         *)
(***************************************************************************)
\* how many buffers the receiver yields at most
MaxBuffers == 3

\* the buffers a receiver may yield
Buffers == {<<>>, <<7>>, <<8, 9>>}

NotReady == [tag |-> "NotReady"]
RecvrError == [tag |-> "Err"]
Ready(item) == [tag |-> "Ready", item |-> item]

PollResults ==
    {NotReady, RecvrError, Ready(None)} \cup {Ready(Some(b)) : b \in Buffers}

\* send_to that skips an empty buffer
SendTo_skip_empty(log, b) ==
    IF b = <<>> THEN log
    ELSE Append(log, [to |-> "127.0.0.1:1888", bytes |-> b])

\* self.out_sock.send_to(b.as_mut(), "127.0.0.1:1888")
SendTo(log, b) == Append(log, [to |-> "127.0.0.1:1888", bytes |-> b])

CodecNotRunning ==
    /\ pc = "none"
    /\ input = Raw
    /\ wire = <<>>
    /\ word = 0
    /\ res = NoResult

\* the executor polls the spawned Printer for the first time
RelayInit ==
    /\ CodecNotRunning
    /\ rpc = "loop"
    /\ polled = NoResult
    /\ yielded = <<>>
    /\ datagrams = <<>>

\* self.recvr.poll()
RecvrPoll ==
    /\ rpc = "loop"
    /\ \E r \in PollResults :
          /\ polled' = r
          /\ IF r.tag = "Ready" /\ r.item # None
             THEN /\ Len(yielded) < MaxBuffers
                  /\ yielded' = Append(yielded, r.item[1])
             ELSE yielded' = yielded
    /\ rpc' = "match"
    /\ UNCHANGED datagrams
    /\ UNCHANGED codecVars

\* Ok(Async::NotReady) => return Ok(Async::NotReady)
ReturnNotReady ==
    /\ rpc = "match"
    /\ polled = NotReady
    /\ rpc' = "not_ready"
    /\ UNCHANGED <<polled, yielded, datagrams>>
    /\ UNCHANGED codecVars

\* e => { eprintln!(..); continue; }
ContinueOnError ==
    /\ rpc = "match"
    /\ polled = RecvrError
    /\ rpc' = "loop"
    /\ UNCHANGED <<polled, yielded, datagrams>>
    /\ UNCHANGED codecVars

\* Some(b): send_to(..).unwrap(), then the loop goes on; unwrap panics when
\* the socket reports an error
SendBuffer ==
    /\ rpc = "match"
    /\ polled.tag = "Ready"
    /\ polled.item # None
    /\ datagrams' = SendTo(datagrams, polled.item[1])
    /\ \/ rpc' = "loop"
       \/ rpc' = "panicked"
    /\ UNCHANGED <<polled, yielded>>
    /\ UNCHANGED codecVars

\* None: println!("Shutdown!"); return Ok(Async::Ready(()))
ReturnReady ==
    /\ rpc = "match"
    /\ polled = Ready(None)
    /\ rpc' = "ready"
    /\ UNCHANGED <<polled, yielded, datagrams>>
    /\ UNCHANGED codecVars

\* the executor polls Printer again after a wake-up; a future that returned
\* Ready is not polled again
Repoll ==
    /\ rpc = "not_ready"
    /\ rpc' = "loop"
    /\ UNCHANGED <<polled, yielded, datagrams>>
    /\ UNCHANGED codecVars

RelayNext ==
    \/ RecvrPoll
    \/ ReturnNotReady
    \/ ContinueOnError
    \/ SendBuffer
    \/ ReturnReady
    \/ Repoll

RelaySpec == RelayInit /\ [][RelayNext]_vars

\* a step inside one call of Printer::poll
InPollStep ==
    RecvrPoll \/ ReturnNotReady \/ ContinueOnError \/ SendBuffer \/ ReturnReady

\* the thread that runs poll keeps running it; nothing obliges the executor
\* to poll again
RelayFairSpec == RelaySpec /\ WF_vars(InPollStep)

(***************************************************************************)
(* What the claims speak of, stated apart from the codec above.            *)
(***************************************************************************)
\* the FF table of the wire format: the two bits of each location
CanonicalFF(loc) ==
    CASE loc = "First"  -> <<1, 0>>
      [] loc = "Middle" -> <<0, 0>>
      [] loc = "Last"   -> <<0, 1>>
      [] loc = "Only"   -> <<1, 1>>

\* bits 31 and 30 of an i32
TopTwoBits(w) == <<IF w < 0 THEN 1 ELSE 0, Low31(w) \div 1073741824>>

\* the 15-bit type field of a control packet: bits 1..15 of word0
TypeField(buf) == (buf[1] % 128) * 256 + buf[2]

IsControlBuffer(buf) == Len(buf) >= 16 /\ buf[1] >= 128

KnownControlTypes == {0, 1, 2, 3, 5, 6, 7}

ShortHeaderError ==
    Err("UnexpectedEof", "Packet not long enough to have a header")

UnknownControlError ==
    Err("InvalidData", "Unrecognized control packet type")

(***************************************************************************)
(* C1.  Data-packet round trip: parsing the bytes serialize wrote for a    *)
(* well-formed data packet gives back that packet, equal in every field.   *)
(***************************************************************************)
C1_DataRoundTrip ==
    (pc = "parsed" /\ input.tag = "Data") => res = Ok(input)

(***************************************************************************)
(* C2.  FF round trip: for every location loc,                             *)
(* PacketLocation::from_i32(loc.to_i32()) is loc.                          *)
(***************************************************************************)
C2_FFRoundTrip ==
    (pc = "decoded" /\ input.tag = "Enum" /\ input.ty = "PacketLocation")
        => res = Ok(input.v)

(***************************************************************************)
(* C3.  PacketLocation::from_i32 decodes a word by its two most            *)
(* significant bits alone: 10 First, 00 Middle, 01 Last, 11 Only.          *)
(***************************************************************************)
C3_DecodesTopTwoBits ==
    (pc = "decoded" /\ input.ty = "PacketLocation")
        => /\ res.tag = "Ok"
           /\ CanonicalFF(res.v) = TopTwoBits(word)

(***************************************************************************)
(* C4.  Handshake round trip: parsing the bytes serialize wrote for a      *)
(* handshake control packet gives back that packet, the peer address       *)
(* included (an IPv4 address as the same IPv4 address).                    *)
(***************************************************************************)
C4_HandshakeRoundTrip ==
    (/\ pc = "parsed"
     /\ input.tag = "Control"
     /\ input.control_type.tag = "Handshake")
        => res = Ok(input)

(***************************************************************************)
(* C5.  ACK optional fields: an ACK whose body is recvd_until and k more   *)
(* words (0 <= k <= 5) parses to an Ack with the first k of rtt,           *)
(* rtt_variance, buffer_available, packet_recv_rate, est_link_cap set to   *)
(* those words, in that order, and the other 5-k unset.                    *)
(***************************************************************************)
\* the number of words that follow recvd_until
AckWordsAfter(buf) == (Len(buf) - 20) \div 4

IsAckOfWholeWords(buf) ==
    /\ Len(buf) >= 20
    /\ buf[1] >= 128
    /\ TypeField(buf) = 2
    /\ (Len(buf) - 20) % 4 = 0
    /\ AckWordsAfter(buf) <= 5

ExpectedAckField(buf, i) ==
    IF i <= AckWordsAfter(buf) THEN Some(GetI32(buf, 16 + 4 * i)) ELSE None

C5_AckOptionalFields ==
    (pc = "parsed" /\ IsAckOfWholeWords(wire))
        => /\ res.tag = "Ok"
           /\ res.v.tag = "Control"
           /\ res.v.control_type.tag = "Ack"
           /\ res.v.control_type.info =
                [recvd_until      |-> GetI32(wire, 16),
                 rtt              |-> ExpectedAckField(wire, 1),
                 rtt_variance     |-> ExpectedAckField(wire, 2),
                 buffer_available |-> ExpectedAckField(wire, 3),
                 packet_recv_rate |-> ExpectedAckField(wire, 4),
                 est_link_cap     |-> ExpectedAckField(wire, 5)]

(***************************************************************************)
(* C6.  Unknown control type is rejected: a buffer of at least 16 bytes    *)
(* whose first bit is 1 and whose 15-bit type field is none of 0, 1, 2,    *)
(* 3, 5, 6, 7 parses to the unknown-control-type error.                    *)
(***************************************************************************)
C6_UnknownControlRejected ==
    (/\ pc = "parsed"
     /\ IsControlBuffer(wire)
     /\ TypeField(wire) \notin KnownControlTypes)
        => res = UnknownControlError

(***************************************************************************)
(* C7.  Parsing is total: whatever the buffer, Packet::parse returns a     *)
(* packet or an error value; it never aborts.                              *)
(***************************************************************************)
C7_ParseIsTotal ==
    pc = "parsed" => res.tag \in {"Ok", "Err"}

(***************************************************************************)
(* C8.  Short header is rejected: a buffer of fewer than 16 bytes parses   *)
(* to the short-header error; a buffer of exactly 16 bytes whose first     *)
(* bit is 0 parses to a data packet with an empty payload.                 *)
(***************************************************************************)
C8_ShortHeaderRejected ==
    pc = "parsed" =>
        /\ Len(wire) < 16 => res = ShortHeaderError
        /\ (Len(wire) = 16 /\ wire[1] < 128)
              => /\ res.tag = "Ok"
                 /\ res.v.tag = "Data"
                 /\ res.v.payload = <<>>

\* a 15-byte buffer was parsed and rejected as short
C8_Witness ==
    pc = "parsed" /\ Len(wire) = 15 /\ res = ShortHeaderError

(***************************************************************************)
(* C9.  Handshake enum decoding: SocketType::from_i32 gives Stream for 1,  *)
(* Datagram for 2, an error otherwise; ConnectionType::from_i32 gives      *)
(* Regular for 1, RendezvousFirst for 0, RendezvousSecond for -1,          *)
(* RendezvousFinal for -2, an error otherwise; from_i32(v.to_i32()) is     *)
(* Ok(v) for every value of both types; and a handshake packet that        *)
(* carries a sock_type or conn_type outside these sets parses to an error. *)
(***************************************************************************)
IsHandshakeBuffer(buf) == IsControlBuffer(buf) /\ TypeField(buf) = 0

\* the buffer is long enough to hold the field at this offset of the body
CarriesBodyWord(buf, off) == Len(buf) >= 16 + off + 4

CarriesBadEnum(buf) ==
    \/ CarriesBodyWord(buf, 4) /\ GetI32(buf, 20) \notin {1, 2}
    \/ CarriesBodyWord(buf, 20) /\ GetI32(buf, 36) \notin {1, 0, -1, -2}

C9_EnumDecoding ==
    /\ (pc = "decoded" /\ input.ty = "SocketType") =>
          /\ word = 1 => res = Ok("Stream")
          /\ word = 2 => res = Ok("Datagram")
          /\ word \notin {1, 2} => res.tag = "Err"
    /\ (pc = "decoded" /\ input.ty = "ConnectionType") =>
          /\ word = 1 => res = Ok("Regular")
          /\ word = 0 => res = Ok("RendezvousFirst")
          /\ word = -1 => res = Ok("RendezvousSecond")
          /\ word = -2 => res = Ok("RendezvousFinal")
          /\ word \notin {1, 0, -1, -2} => res.tag = "Err"
    /\ (/\ pc = "decoded"
        /\ input.tag = "Enum"
        /\ input.ty \in {"SocketType", "ConnectionType"})
          => res = Ok(input.v)
    /\ (pc = "parsed" /\ IsHandshakeBuffer(wire) /\ CarriesBadEnum(wire))
          => res.tag = "Err"

\* a handshake with a good sock_type and a conn_type of 3 was parsed and
\* refused with an error
C9_Witness ==
    /\ pc = "parsed"
    /\ IsHandshakeBuffer(wire)
    /\ CarriesBodyWord(wire, 20)
    /\ GetI32(wire, 20) = 2
    /\ GetI32(wire, 36) = 3
    /\ res.tag = "Err"

(***************************************************************************)
(* C10.  Data wire layout: serialize writes 16 + payload-length bytes:     *)
(* word0 the sequence number, high bit 0; word1 the FF bits (First 10,     *)
(* Middle 00, Last 01, Only 11), the O bit equal to in_order_delivery,     *)
(* the 29-bit message number; word2 the timestamp; word3 the destination   *)
(* socket id; then the payload unchanged; integers big-endian.             *)
(***************************************************************************)
ExpectedSecondWord(d) ==
    LET ff == CanonicalFF(d.message_loc)
        o  == IF d.in_order_delivery THEN 1 ELSE 0
        m  == d.message_number
    IN  << ff[1] * 128 + ff[2] * 64 + o * 32 + (m \div 16777216),
           (m \div 65536) % 256,
           (m \div 256) % 256,
           m % 256 >>

ExpectedDataLayout(d) ==
    PutI32(d.seq_number) \o ExpectedSecondWord(d)
    \o PutI32(d.timestamp) \o PutI32(d.dest_sockid) \o d.payload

C10_DataWireLayout ==
    (pc = "wire" /\ input.tag = "Data")
        => /\ Len(wire) = 16 + Len(input.payload)
           /\ wire[1] < 128
           /\ wire = ExpectedDataLayout(input)

(***************************************************************************)
(* C11.  Handshake wire layout: for an IPv4 and for an IPv6 peer address,  *)
(* serialize writes the 16-byte control header and then a body of exactly  *)
(* 48 bytes: eight big-endian i32 (udt_version, sock_type, init_seq,       *)
(* max_pkt, max_flow, conn_type, socket_id, syn_cookie) and 16 bytes of    *)
(* peer IP, in which an IPv4 address fills 4 bytes and the other 12 are    *)
(* zero.                                                                   *)
(***************************************************************************)
Zeros(n) == [i \in 1..n |-> 0]

\* the 16-byte peer IP fields the layout allows for an address
ExpectedPeerIp(addr) ==
    IF addr.v = "V4"
    THEN {addr.octets \o Zeros(12), Zeros(12) \o addr.octets}
    ELSE {addr.octets}

ExpectedHandshakeWords(c) ==
    PutI32(c.udt_version)
    \o PutI32(CASE c.sock_type = "Stream" -> 1 [] c.sock_type = "Datagram" -> 2)
    \o PutI32(c.init_seq_num)
    \o PutI32(c.max_packet_size)
    \o PutI32(c.max_flow_size)
    \o PutI32(CASE c.connection_type = "Regular" -> 1
                [] c.connection_type = "RendezvousFirst" -> 0
                [] c.connection_type = "RendezvousSecond" -> -1
                [] c.connection_type = "RendezvousFinal" -> -2)
    \o PutI32(c.socket_id)
    \o PutI32(c.syn_cookie)

C11_HandshakeWireLayout ==
    (/\ pc = "wire"
     /\ input.tag = "Control"
     /\ input.control_type.tag = "Handshake")
        => /\ Len(wire) = 16 + 48
           /\ IsHandshakeBuffer(wire)
           /\ GetI32(wire, 8) = input.timestamp
           /\ GetI32(wire, 12) = input.dest_sockid
           /\ SubSeq(wire, 17, 48) = ExpectedHandshakeWords(input.control_type.info)
           /\ SubSeq(wire, 49, 64) \in ExpectedPeerIp(input.control_type.info.peer_addr)


(***************************************************************************)
(* C12: the relay sends exactly one datagram to 127.0.0.1:1888 for each    *)
(* buffer the receiver yields, with the same bytes and in the order        *)
(* yielded; it sends none for a not-ready or an error result; and once the *)
(* receiver has yielded the end of the stream the relay completes and      *)
(* sends nothing more.                                                     *)
(* A datagram is sent when it is handed to send_to; the buffer of the      *)
(* match arm that has not run yet is the one not sent yet.                 *)
(***************************************************************************)
Forwarded(bufs) ==
    [i \in 1..Len(bufs) |-> [to |-> "127.0.0.1:1888", bytes |-> bufs[i]]]

BufferInHand == rpc = "match" /\ polled.tag = "Ready" /\ polled.item # None

OneDatagramPerBuffer ==
    rpc # "not_started"
        => datagrams = Forwarded(IF BufferInHand
                                 THEN SubSeq(yielded, 1, Len(yielded) - 1)
                                 ELSE yielded)

NothingSentWithoutBuffer ==
    (rpc = "match" /\ polled \in {NotReady, RecvrError})
        => datagrams' = datagrams

CompletesAtEndOfStream ==
    /\ (rpc = "match" /\ polled = Ready(None))
           => (rpc' = "ready" /\ datagrams' = datagrams)
    /\ rpc = "ready" => (rpc' = "ready" /\ datagrams' = datagrams)

InsidePoll == rpc \in {"loop", "match"}

PollReturned == rpc \in {"not_ready", "ready"}

PollEnded == PollReturned \/ rpc = "panicked"

C13_PollReturns == InsidePoll ~> PollEnded

=============================================================================
